---- MODULE Spec2Model ----
(***************************************************************************)
(* Incident lifecycle and AI-analysis normalisation of the incident        *)
(* assistant backend: ai.service.js (generateIncidentAnalysis),            *)
(* incidents.service.js (createIncident), incidents-management.service.js  *)
(* (updateStatus, assignIncident, addComment, getComments, getActivity),   *)
(* deleteIncident and the SQL migrations 001-003 (tables, CHECK and        *)
(* foreign-key constraints, triggers).                                     *)
(***************************************************************************)
EXTENDS Integers, Sequences, FiniteSets, TLC

VARIABLES
    incidents,   \* table incidents: id -> row
    activity,    \* table incident_activity, in insertion order
    comments,    \* table incident_comments, in insertion order
    nextId,      \* SERIAL sequence of incidents.id
    activitySeq, \* SERIAL sequence of incident_activity.id
    commentSeq,  \* SERIAL sequence of incident_comments.id
    now,         \* CURRENT_TIMESTAMP / new Date(): a logical clock
    pending,     \* per client, the updateStatus request it has in flight
    lastOp       \* the service call whose result the controller is about to
                 \* send: its arguments and what it returned or threw

vars == <<incidents, activity, comments, nextId, activitySeq, commentSeq, now,
          pending, lastOp>>

----------------------------------------------------------------------------
(* Bounds of the model *)

MaxIncidents == 2
MaxTime == 4

----------------------------------------------------------------------------
(* JavaScript / SQL values *)

\* undefined (a destructured field that the caller did not supply)
Absent == "<undefined>"
\* SQL NULL in a text column
Null == "<NULL>"
\* SQL NULL in a timestamp column
NullTime == 0

\* String.prototype.toLowerCase on the strings the model uses
toLowerCase(s) ==
    CASE s = "LOW" -> "low"
      [] s = "HIGH" -> "high"
      [] s = "Medium" -> "medium"
      [] s = "CRITICAL" -> "critical"
      [] s = "Open" -> "open"
      [] s = "RESOLVED" -> "resolved"
      [] s = "Closed" -> "closed"
      [] OTHER -> s

\* String.prototype.toUpperCase on the strings the model uses
toUpperCase(s) ==
    CASE s = "low" -> "LOW"
      [] s = "medium" -> "MEDIUM"
      [] s = "Medium" -> "MEDIUM"
      [] s = "high" -> "HIGH"
      [] s = "critical" -> "CRITICAL"
      [] s = "immediate" -> "IMMEDIATE"
      [] OTHER -> s

\* An object that has no callable toString (a request body such as
\* {"title": {"toString": 1}}): truthy, and converting it to a string, as a
\* template literal does, throws a TypeError
Unprintable == "<object without toString>"

\* JavaScript truthiness of a string-or-undefined value
Truthy(s) == s # Absent /\ s # ""

\* obj.key of a parsed JSON object: undefined when the key is missing
Field(obj, key) == IF key \in DOMAIN obj THEN obj[key] ELSE Absent

\* A value the code dispatches on by type (typeof / Array.isArray)
Str(s) == [type |-> "string", v |-> s]
Arr(q) == [type |-> "array", v |-> q]

\* Array.prototype.join(', ') on an array of strings
RECURSIVE join(_)
join(q) ==
    IF Len(q) = 0 THEN ""
    ELSE IF Len(q) = 1 THEN q[1]
    ELSE q[1] \o ", " \o join(Tail(q))

----------------------------------------------------------------------------
(* ai.service.js: generateIncidentAnalysis *)

\* (mutant) the callback with the likelihood as the model wrote it
formatRootCauseAsWritten(rc) ==
    IF rc.type = "object" /\ Truthy(Field(rc, "cause"))
    THEN LET likelihood == IF Truthy(Field(rc, "likelihood"))
                           THEN "[" \o rc.likelihood \o "]"
                           ELSE ""
             components == IF "components" \in DOMAIN rc /\ Len(rc.components) > 0
                           THEN " (Components: " \o join(rc.components) \o ")"
                           ELSE ""
             reasoning == IF Truthy(Field(rc, "reasoning"))
                          THEN rc.reasoning
                          ELSE "Analysis based on error patterns"
         IN Str(likelihood \o " " \o rc.cause \o components
                \o "\nReasoning: " \o reasoning)
    ELSE rc

\* rootCauses.map callback: one cause to its stored form
formatRootCause(rc) ==
    IF rc.type = "object" /\ Truthy(Field(rc, "cause"))
    THEN LET likelihood == IF Truthy(Field(rc, "likelihood"))
                           THEN "[" \o toUpperCase(rc.likelihood) \o "]"
                           ELSE ""
             components == IF "components" \in DOMAIN rc /\ Len(rc.components) > 0
                           THEN " (Components: " \o join(rc.components) \o ")"
                           ELSE ""
             reasoning == IF Truthy(Field(rc, "reasoning"))
                          THEN rc.reasoning
                          ELSE "Analysis based on error patterns"
         IN Str(likelihood \o " " \o rc.cause \o components
                \o "\nReasoning: " \o reasoning)
    ELSE rc

\* formattedRootCauses
formattedRootCauses(rootCauses) ==
    IF rootCauses.type = "array"
    THEN [i \in 1..Len(rootCauses.v) |-> formatRootCause(rootCauses.v[i])]
    ELSE <<rootCauses>>

\* (mutant) the callback numbering the items from 0
formatActionItemFromZero(item, index) ==
    IF item.type = "object" /\ Truthy(Field(item, "action"))
    THEN LET priority == IF Truthy(Field(item, "priority"))
                         THEN "[" \o toUpperCase(item.priority) \o "]"
                         ELSE "[MEDIUM]"
             owner == IF Truthy(Field(item, "owner")) THEN " @" \o item.owner ELSE ""
             command == IF Truthy(Field(item, "command"))
                        THEN "\n   Command: " \o item.command
                        ELSE ""
         IN Str(ToString(index) \o ". " \o priority \o owner \o " "
                \o item.action \o command)
    ELSE IF item.type = "string"
         THEN Str(ToString(index) \o ". " \o item.v)
         ELSE item

\* actionItems.map callback: one item, at 0-based position index
formatActionItem(item, index) ==
    IF item.type = "object" /\ Truthy(Field(item, "action"))
    THEN LET priority == IF Truthy(Field(item, "priority"))
                         THEN "[" \o toUpperCase(item.priority) \o "]"
                         ELSE "[MEDIUM]"
             owner == IF Truthy(Field(item, "owner")) THEN " @" \o item.owner ELSE ""
             command == IF Truthy(Field(item, "command"))
                        THEN "\n   Command: " \o item.command
                        ELSE ""
         IN Str(ToString(index + 1) \o ". " \o priority \o owner \o " "
                \o item.action \o command)
    ELSE IF item.type = "string"
         THEN Str(ToString(index + 1) \o ". " \o item.v)
         ELSE item

\* formattedActionItems
formattedActionItems(analysis) ==
    IF "actionItems" \in DOMAIN analysis /\ analysis.actionItems.type = "array"
    THEN [i \in 1..Len(analysis.actionItems.v) |->
              formatActionItem(analysis.actionItems.v[i], i - 1)]
    ELSE IF "actionItems" \in DOMAIN analysis
              /\ ~(analysis.actionItems.type = "string" /\ analysis.actionItems.v = "")
         THEN analysis.actionItems
         ELSE <<>>

\* JavaScript truthiness of analysis.rootCauses
rootCausesTruthy(analysis) ==
    /\ "rootCauses" \in DOMAIN analysis
    /\ ~(analysis.rootCauses.type = "string" /\ analysis.rootCauses.v = "")

\* The metadata object of a successful analysis
successMetadata(analysis, response, t) ==
    [severityJustification |->
         IF Truthy(Field(analysis, "severityJustification"))
         THEN analysis.severityJustification
         ELSE "Based on incident description",
     similarPatterns |->
         IF "similarPatterns" \in DOMAIN analysis THEN analysis.similarPatterns ELSE <<>>,
     preventiveMeasures |->
         IF "preventiveMeasures" \in DOMAIN analysis
         THEN analysis.preventiveMeasures ELSE <<>>,
     analysisTimestamp |-> t,
     tokensUsed |-> response.total_tokens]

\* (mutant) the try block without the required-fields check
tryBlockNoValidation(incidentData, response, t) ==
    IF response.kind # "resolved" THEN [threw |-> TRUE]
    ELSE IF response.content.parse # "ok" THEN [threw |-> TRUE]
    ELSE LET analysis == response.content.json IN
         IF "summary" \notin DOMAIN analysis THEN [threw |-> TRUE]
         ELSE [threw |-> FALSE,
               value |->
                 [summary |-> analysis.summary,
                  rootCauses |-> IF "rootCauses" \in DOMAIN analysis
                                 THEN formattedRootCauses(analysis.rootCauses)
                                 ELSE <<>>,
                  customerMessage |-> Field(analysis, "customerMessage"),
                  actionItems |-> formattedActionItems(analysis),
                  suggestedSeverity |->
                      IF Truthy(Field(analysis, "suggestedSeverity"))
                      THEN analysis.suggestedSeverity
                      ELSE incidentData.severity,
                  metadata |-> successMetadata(analysis, response, t)]]

\* The try block: the value it returns, or threw = TRUE when a statement of
\* it throws (the userPrompt template cannot convert the title, the awaited
\* call rejects, JSON.parse fails, summary is not a string, or the
\* required-fields check throws).
tryBlock(incidentData, response, t) ==
    IF incidentData.title = Unprintable THEN [threw |-> TRUE]
    ELSE IF response.kind # "resolved" THEN [threw |-> TRUE]
    ELSE IF response.content.parse # "ok" THEN [threw |-> TRUE]
    ELSE LET analysis == response.content.json IN
         IF "summary" \notin DOMAIN analysis THEN [threw |-> TRUE]
         ELSE IF \/ ~Truthy(analysis.summary)
                 \/ ~rootCausesTruthy(analysis)
                 \/ ~Truthy(Field(analysis, "customerMessage"))
              THEN [threw |-> TRUE]
              ELSE [threw |-> FALSE,
                    value |->
                      [summary |-> analysis.summary,
                       rootCauses |-> formattedRootCauses(analysis.rootCauses),
                       customerMessage |-> analysis.customerMessage,
                       actionItems |-> formattedActionItems(analysis),
                       suggestedSeverity |->
                           IF Truthy(Field(analysis, "suggestedSeverity"))
                           THEN analysis.suggestedSeverity
                           ELSE incidentData.severity,
                       metadata |-> successMetadata(analysis, response, t)]]

\* (mutant) a fallback object that is not marked as one
fallbackAnalysisUnmarked(incidentData, t) ==
    [summary |-> toUpperCase(incidentData.severity) \o " severity incident: "
                 \o incidentData.title \o " (AI analysis unavailable)",
     rootCauses |-> <<Str("[HIGH] AI analysis service temporarily unavailable - manual review required")>>,
     customerMessage |-> "We are currently investigating an issue affecting our services.",
     actionItems |-> <<>>,
     suggestedSeverity |-> incidentData.severity,
     metadata |->
        [severityJustification |-> "Using declared severity - AI analysis unavailable",
         similarPatterns |-> <<>>,
         preventiveMeasures |-> <<>>,
         analysisTimestamp |-> t,
         tokensUsed |-> 0]]

\* (mutant) a fallback object that suggests a severity of its own
fallbackAnalysisOwnSeverity(incidentData, t) ==
    [fallbackAnalysisUnmarked(incidentData, t) EXCEPT !.suggestedSeverity = "medium"]

\* The object the catch block returns
fallbackAnalysis(incidentData, t) ==
    [summary |-> toUpperCase(incidentData.severity) \o " severity incident: "
                 \o incidentData.title \o " (AI analysis unavailable)",
     rootCauses |-> <<
        Str("[HIGH] AI analysis service temporarily unavailable - manual review required"),
        Str("[MEDIUM] Check system logs and monitoring dashboards for immediate patterns"),
        Str("[MEDIUM] Review recent changes (deployments, configs, infrastructure) from the last 24 hours")>>,
     customerMessage |-> "We are currently investigating an issue affecting our services. Our engineering team has been notified and is actively working on a resolution. We will provide updates as more information becomes available.",
     actionItems |-> <<
        Str("1. [IMMEDIATE] @SRE Review error logs, metrics, and traces in monitoring system"),
        Str("2. [IMMEDIATE] @SRE Check system resources: CPU, memory, disk I/O, network connectivity"),
        Str("3. [HIGH] @DevOps Verify recent deployments and consider rollback if applicable"),
        Str("4. [HIGH] @Engineering Review application logs for exceptions and error patterns"),
        Str("5. [MEDIUM] @Engineering Check database performance and connection pools"),
        Str("6. [MEDIUM] @SRE Verify external dependencies and third-party service status")>>,
     suggestedSeverity |-> incidentData.severity,
     metadata |->
        [severityJustification |-> "Using declared severity - AI analysis unavailable",
         similarPatterns |-> <<>>,
         preventiveMeasures |-> <<"Implement AI service redundancy",
                                  "Set up fallback analysis pipeline">>,
         analysisTimestamp |-> t,
         tokensUsed |-> 0,
         fallbackMode |-> TRUE]]

\* (mutant) a catch block that logs and rethrows
catchBlockRethrows(incidentData, t) ==
    [raised |-> TRUE, error |-> "OpenAI API unavailable"]

\* The catch block: building the summary throws when severity is not a
\* string (severity.toUpperCase()) or the title cannot be converted to one
catchBlock(incidentData, t) ==
    IF incidentData.severity = Absent
    THEN [raised |-> TRUE, error |-> "TypeError"]
    ELSE IF incidentData.title = Unprintable
    THEN [raised |-> TRUE, error |-> "Cannot convert object to primitive value"]
    ELSE [raised |-> FALSE, value |-> fallbackAnalysis(incidentData, t)]

\* generateIncidentAnalysis(incidentData), given what the OpenAI call does
generateIncidentAnalysis(incidentData, response, t) ==
    LET body == tryBlock(incidentData, response, t) IN
    IF body.threw
    THEN catchBlock(incidentData, t)
    ELSE [raised |-> FALSE, value |-> body.value]

----------------------------------------------------------------------------
(* The database: migrations 001, 002, 003 *)

\* CHECK (severity IN ('low', 'medium', 'high'))
severityCheck(severity) == severity \in {"low", "medium", "high"}

\* CHECK (status IN ('open', 'investigating', 'resolved', 'closed'))
statusCheck(status) == status \in {"open", "investigating", "resolved", "closed"}

\* BEFORE UPDATE trigger update_incidents_updated_at
update_updated_at_column(new, t) == [new EXCEPT !.updated_at = t]

\* (mutant) the status branch with OLD and NEW exchanged
statusChangeRowsReversed(old, new, t, serial) ==
    IF old.status # new.status
    THEN <<[id |-> serial,
            incident_id |-> new.id,
            activity_type |-> "status_changed",
            actor_name |-> Null,
            description |-> "Status changed from " \o new.status
                            \o " to " \o old.status,
            metadata |-> [old_status |-> new.status,
                          new_status |-> old.status],
            created_at |-> t]>>
    ELSE <<>>

\* (mutant) the status branch without its IS DISTINCT FROM test
statusChangeRowsAlways(old, new, t, serial) ==
    <<[id |-> serial,
       incident_id |-> new.id,
       activity_type |-> "status_changed",
       actor_name |-> Null,
       description |-> "Status changed from " \o old.status \o " to " \o new.status,
       metadata |-> [old_status |-> old.status, new_status |-> new.status],
       created_at |-> t]>>

\* log_incident_status_change, first IF: the row logged for a changed status
statusChangeRows(old, new, t, serial) ==
    IF old.status # new.status
    THEN <<[id |-> serial,
            incident_id |-> new.id,
            activity_type |-> "status_changed",
            actor_name |-> Null,
            description |-> "Status changed from " \o old.status
                            \o " to " \o new.status,
            metadata |-> [old_status |-> old.status,
                          new_status |-> new.status],
            created_at |-> t]>>
    ELSE <<>>

\* (mutant) the assignment branch with the last two CASE arms exchanged
assignmentRowsSwapped(old, new, t, serial) ==
    IF old.assigned_to # new.assigned_to
    THEN <<[id |-> serial,
            incident_id |-> new.id,
            activity_type |-> "assigned",
            actor_name |-> Null,
            description |->
                IF new.assigned_to = Null THEN "Incident unassigned"
                ELSE IF old.assigned_to = Null
                     THEN "Incident reassigned from " \o old.assigned_to
                          \o " to " \o new.assigned_to
                     ELSE "Incident assigned to " \o new.assigned_to,
            metadata |-> [old_assignee |-> old.assigned_to,
                          new_assignee |-> new.assigned_to],
            created_at |-> t]>>
    ELSE <<>>

\* log_incident_status_change, second IF: the row logged for a changed assignee
assignmentRows(old, new, t, serial) ==
    IF old.assigned_to # new.assigned_to
    THEN <<[id |-> serial,
            incident_id |-> new.id,
            activity_type |-> "assigned",
            actor_name |-> Null,
            description |->
                IF new.assigned_to = Null THEN "Incident unassigned"
                ELSE IF old.assigned_to = Null
                     THEN "Incident assigned to " \o new.assigned_to
                     ELSE "Incident reassigned from " \o old.assigned_to
                          \o " to " \o new.assigned_to,
            metadata |-> [old_assignee |-> old.assigned_to,
                          new_assignee |-> new.assigned_to],
            created_at |-> t]>>
    ELSE <<>>

\* AFTER UPDATE trigger track_incident_changes: the incident_activity rows it
\* inserts for one updated row, given the id the SERIAL column hands out next
log_incident_status_change(old, new, t, serial) ==
    LET statusRows == statusChangeRows(old, new, t, serial)
    IN statusRows \o assignmentRows(old, new, t, serial + Len(statusRows))

\* (mutant) an UPDATE that puts the columns it does not SET back to their
\* defaults
updateIncidentsResetting(db, id, set, dbOk, t) ==
    IF ~dbOk
    THEN [error |-> "Database connection failed", db |-> db, rows |-> <<>>]
    ELSE IF id \notin DOMAIN db.incidents
    THEN [error |-> "", db |-> db, rows |-> <<>>]
    ELSE LET old == db.incidents[id]
             new == update_updated_at_column(
                            set @@ [old EXCEPT !.status = "open",
                                               !.assigned_to = Null], t)
         IN IF ~statusCheck(new.status)
            THEN [error |-> "violates check constraint", db |-> db, rows |-> <<>>]
            ELSE LET logged == log_incident_status_change(old, new, t, db.activitySeq)
                 IN [error |-> "",
                     db |-> [db EXCEPT !.incidents = [db.incidents EXCEPT ![id] = new],
                                       !.activity = db.activity \o logged,
                                       !.activitySeq = db.activitySeq + Len(logged)],
                     rows |-> <<new>>]

\* db.query of an UPDATE incidents SET ... WHERE id = $n RETURNING *, where
\* set gives the columns of the SET clause and their new values.  The
\* statement, its triggers and its constraint checks are one atomic step of
\* the database.
updateIncidents(db, id, set, dbOk, t) ==
    IF ~dbOk
    THEN [error |-> "Database connection failed", db |-> db, rows |-> <<>>]
    ELSE IF id \notin DOMAIN db.incidents
    THEN [error |-> "", db |-> db, rows |-> <<>>]
    ELSE LET old == db.incidents[id]
             new == update_updated_at_column(set @@ old, t)
         IN IF ~statusCheck(new.status)
            THEN [error |-> "violates check constraint", db |-> db, rows |-> <<>>]
            ELSE LET logged == log_incident_status_change(old, new, t, db.activitySeq)
                 IN [error |-> "",
                     db |-> [db EXCEPT !.incidents = [db.incidents EXCEPT ![id] = new],
                                       !.activity = db.activity \o logged,
                                       !.activitySeq = db.activitySeq + Len(logged)],
                     rows |-> <<new>>]

\* The row an INSERT INTO incidents (...) VALUES ($1, ..., $9) builds: the
\* columns the statement does not name take their DEFAULT
incidentRow(id, values, t) ==
    [id |-> id,
     title |-> values[1],
     severity |-> values[2],
     description |-> values[3],
     ai_summary |-> values[4],
     ai_root_causes |-> values[5],
     ai_customer_message |-> values[6],
     ai_action_items |-> values[7],
     ai_metadata |-> values[8],
     status |-> values[9],
     assigned_to |-> Null,
     resolved_at |-> NullTime,
     closed_at |-> NullTime,
     created_at |-> t,
     updated_at |-> t]

\* (mutant) an INSERT that is sent again when the first attempt fails
insertIncidentRetry(db, id, values, dbOk, t) ==
    LET row == incidentRow(id, values, t)
    IN [error |-> "",
        db |-> [db EXCEPT !.incidents = (id :> row) @@ db.incidents],
        rows |-> <<row>>]

\* db.query of the INSERT INTO incidents (...) RETURNING * of createIncident
insertIncident(db, id, values, dbOk, t) ==
    LET row == incidentRow(id, values, t)
    IN IF ~dbOk
       THEN [error |-> "Database connection failed", db |-> db, rows |-> <<>>]
       ELSE IF ~severityCheck(row.severity) \/ ~statusCheck(row.status)
       THEN [error |-> "violates check constraint", db |-> db, rows |-> <<>>]
       ELSE [error |-> "",
             db |-> [db EXCEPT !.incidents = (id :> row) @@ db.incidents],
             rows |-> <<row>>]

----------------------------------------------------------------------------
(* incidents.service.js: createIncident *)

\* const validSeverities
validSeveritiesWithCritical == {"low", "medium", "high", "critical"}
validSeverities == {"low", "medium", "high"}

\* (mutant) a createIncident that stores the incident without an analysis
\* when the analysis step raises
createIncidentWithoutAnalysis(db, id, incidentData, response, dbOk, t) ==
    LET title == incidentData.title
        severity == incidentData.severity
        description == incidentData.description
        failed(msg, ai, q) ==
            [error |-> msg, db |-> db, aiCalls |-> ai, dbWrites |-> q]
    IN
    IF ~Truthy(title) \/ ~Truthy(severity) \/ ~Truthy(description)
    THEN failed("Missing required fields: title, severity, and description are required", 0, 0)
    ELSE IF toLowerCase(severity) \notin validSeverities
    THEN failed("Invalid severity. Must be one of: low, medium, high", 0, 0)
    ELSE LET ai == generateIncidentAnalysis(
                      [title |-> title, severity |-> severity,
                       description |-> description], response, t)
         IN LET aiAnalysis == IF ai.raised
                                 THEN [summary |-> Null, rootCauses |-> <<>>,
                                       customerMessage |-> Null,
                                       actionItems |-> <<>>,
                                       metadata |-> [k \in {} |-> Null]]
                                 ELSE ai.value
                    values == <<title,
                                 toLowerCase(severity),
                                 description,
                                 aiAnalysis.summary,
                                 aiAnalysis.rootCauses,
                                 aiAnalysis.customerMessage,
                                 aiAnalysis.actionItems,
                                 aiAnalysis.metadata,
                                 "open">>
                     result == insertIncident(db, id, values, dbOk, t)
                 IN IF result.error # ""
                    THEN [error |-> result.error, db |-> result.db, aiCalls |-> 1,
                          dbWrites |-> 1, aiAnalysis |-> aiAnalysis]
                    ELSE [error |-> "", db |-> result.db, aiCalls |-> 1,
                          dbWrites |-> 1, incident |-> result.rows[1],
                          aiAnalysis |-> aiAnalysis]

\* What one call of createIncident does: the error it throws ("" when it
\* returns), the incident it returns, the analysis it got from the AI
\* service, the database after it, and how many times it called the OpenAI
\* API and db.query.
createIncident(db, id, incidentData, response, dbOk, t) ==
    LET title == incidentData.title
        severity == incidentData.severity
        description == incidentData.description
        failed(msg, ai, q) ==
            [error |-> msg, db |-> db, aiCalls |-> ai, dbWrites |-> q]
    IN
    IF ~Truthy(title) \/ ~Truthy(severity) \/ ~Truthy(description)
    THEN failed("Missing required fields: title, severity, and description are required", 0, 0)
    ELSE IF toLowerCase(severity) \notin validSeverities
    THEN failed("Invalid severity. Must be one of: low, medium, high", 0, 0)
    ELSE LET ai == generateIncidentAnalysis(
                      [title |-> title, severity |-> severity,
                       description |-> description], response, t)
         IN IF ai.raised THEN failed(ai.error, 1, 0)
            ELSE LET aiAnalysis == ai.value
                     values == <<title,
                                 toLowerCase(severity),
                                 description,
                                 aiAnalysis.summary,
                                 aiAnalysis.rootCauses,
                                 aiAnalysis.customerMessage,
                                 aiAnalysis.actionItems,
                                 aiAnalysis.metadata,
                                 "open">>
                     result == insertIncident(db, id, values, dbOk, t)
                 IN IF result.error # ""
                    THEN [error |-> result.error, db |-> result.db, aiCalls |-> 1,
                          dbWrites |-> 1, aiAnalysis |-> aiAnalysis]
                    ELSE [error |-> "", db |-> result.db, aiCalls |-> 1,
                          dbWrites |-> 1, incident |-> result.rows[1],
                          aiAnalysis |-> aiAnalysis]

----------------------------------------------------------------------------
(* incidents-management.service.js: updateStatus, assignIncident *)

\* const validStatuses
validStatusesWithReopened == {"open", "investigating", "resolved", "closed", "reopened"}
validStatuses == {"open", "investigating", "resolved", "closed"}

\* (mutant) an updateStatus for which closed is a terminal status
updateStatusTerminal(db, id, newStatus, actorName, dbOk, t) ==
    IF newStatus = Absent
    THEN [error |-> "TypeError", db |-> db, dbWrites |-> 0]
    ELSE IF toLowerCase(newStatus) \notin validStatuses
    THEN [error |-> "Invalid status. Must be one of: open, investigating, resolved, closed",
          db |-> db, dbWrites |-> 0]
    ELSE IF id \in DOMAIN db.incidents /\ db.incidents[id].status = "closed"
    THEN [error |-> "Incident is closed", db |-> db, dbWrites |-> 0]
    ELSE LET set == [status |-> toLowerCase(newStatus)]
             result == updateIncidents(db, id, set, dbOk, t)
         IN IF result.error # ""
            THEN [error |-> result.error, db |-> result.db, dbWrites |-> 1]
            ELSE IF Len(result.rows) = 0
            THEN [error |-> "Incident with ID " \o ToString(id) \o " not found",
                  db |-> result.db, dbWrites |-> 1]
            ELSE [error |-> "", db |-> result.db, dbWrites |-> 1,
                  incident |-> result.rows[1]]

\* What one call of updateStatus does
updateStatus(db, id, newStatus, actorName, dbOk, t) ==
    IF newStatus = Absent
    THEN [error |-> "TypeError", db |-> db, dbWrites |-> 0]
    ELSE IF toLowerCase(newStatus) \notin validStatuses
    THEN [error |-> "Invalid status. Must be one of: open, investigating, resolved, closed",
          db |-> db, dbWrites |-> 0]
    ELSE LET set ==
                 IF newStatus = "resolved"
                 THEN [status |-> toLowerCase(newStatus), resolved_at |-> t]
                 ELSE IF newStatus = "closed"
                 THEN [status |-> toLowerCase(newStatus), closed_at |-> t]
                 ELSE [status |-> toLowerCase(newStatus)]
             result == updateIncidents(db, id, set, dbOk, t)
         IN IF result.error # ""
            THEN [error |-> result.error, db |-> result.db, dbWrites |-> 1]
            ELSE IF Len(result.rows) = 0
            THEN [error |-> "Incident with ID " \o ToString(id) \o " not found", db |-> result.db, dbWrites |-> 1]
            ELSE [error |-> "", db |-> result.db, dbWrites |-> 1,
                  incident |-> result.rows[1]]

\* What one call of assignIncident does
assignIncidentNoRowCheck(db, id, assigneeName, actorName, dbOk, t) ==
    LET set == [assigned_to |-> assigneeName]
        result == updateIncidents(db, id, set, dbOk, t)
    IN IF result.error # ""
       THEN [error |-> result.error, db |-> result.db, dbWrites |-> 1]
       ELSE [error |-> "", db |-> result.db, dbWrites |-> 1,
             incident |-> IF Len(result.rows) = 0 THEN Null ELSE result.rows[1]]

\* What one call of assignIncident does
assignIncident(db, id, assigneeName, actorName, dbOk, t) ==
    LET set == [assigned_to |-> assigneeName]
        result == updateIncidents(db, id, set, dbOk, t)
    IN IF result.error # ""
       THEN [error |-> result.error, db |-> result.db, dbWrites |-> 1]
       ELSE IF Len(result.rows) = 0
       THEN [error |-> "Incident with ID " \o ToString(id) \o " not found", db |-> result.db, dbWrites |-> 1]
       ELSE [error |-> "", db |-> result.db, dbWrites |-> 1,
             incident |-> result.rows[1]]

\* String.prototype.trim on the strings the model uses
trim(s) ==
    CASE s = "   " -> ""
      [] s = "  fixed it " -> "fixed it"
      [] OTHER -> s

\* db.query of INSERT INTO incident_comments (incident_id, author_name,
\* comment_text) VALUES ($1, $2, $3) RETURNING *
insertComment(db, values, dbOk, t) ==
    IF ~dbOk
    THEN [error |-> "Database connection failed", db |-> db, rows |-> <<>>]
    ELSE IF values[2] = Absent \/ values[3] = Absent
    THEN [error |-> "violates not-null constraint", db |-> db, rows |-> <<>>]
    ELSE IF values[1] \notin DOMAIN db.incidents
    THEN [error |-> "violates foreign key constraint", db |-> db, rows |-> <<>>]
    ELSE LET row == [id |-> db.commentSeq,
                     incident_id |-> values[1],
                     author_name |-> values[2],
                     comment_text |-> values[3],
                     created_at |-> t,
                     updated_at |-> t]
         IN [error |-> "",
             db |-> [db EXCEPT !.comments = Append(db.comments, row),
                               !.commentSeq = db.commentSeq + 1],
             rows |-> <<row>>]

\* (mutant) an INSERT that replaces the earlier entries of the incident
insertActivityReplacing(db, values, dbOk, t) ==
    IF ~dbOk
    THEN [error |-> "Database connection failed", db |-> db, rows |-> <<>>]
    ELSE IF values[1] \notin DOMAIN db.incidents
    THEN [error |-> "violates foreign key constraint", db |-> db, rows |-> <<>>]
    ELSE LET row == [id |-> db.activitySeq,
                     incident_id |-> values[1],
                     activity_type |-> values[2],
                     actor_name |-> values[3],
                     description |-> values[4],
                     metadata |-> [k \in {} |-> Null],
                     created_at |-> t]
             others(r) == r.incident_id # values[1]
         IN [error |-> "",
             db |-> [db EXCEPT !.activity = Append(SelectSeq(db.activity, others), row),
                               !.activitySeq = db.activitySeq + 1],
             rows |-> <<>>]

\* db.query of INSERT INTO incident_activity (incident_id, activity_type,
\* actor_name, description) VALUES ($1, $2, $3, $4)
insertActivity(db, values, dbOk, t) ==
    IF ~dbOk
    THEN [error |-> "Database connection failed", db |-> db, rows |-> <<>>]
    ELSE IF values[1] \notin DOMAIN db.incidents
    THEN [error |-> "violates foreign key constraint", db |-> db, rows |-> <<>>]
    ELSE LET row == [id |-> db.activitySeq,
                     incident_id |-> values[1],
                     activity_type |-> values[2],
                     actor_name |-> values[3],
                     description |-> values[4],
                     metadata |-> [k \in {} |-> Null],
                     created_at |-> t]
         IN [error |-> "",
             db |-> [db EXCEPT !.activity = Append(db.activity, row),
                               !.activitySeq = db.activitySeq + 1],
             rows |-> <<>>]

\* (mutant) the values of the comment INSERT with the text as typed
commentValuesUntrimmed(incidentId, authorName, commentText) ==
    <<incidentId, authorName, commentText>>

\* The parameters of the comment INSERT
commentValues(incidentId, authorName, commentText) ==
    <<incidentId, authorName, trim(commentText)>>

\* What one call of addComment does; dbOk[1] and dbOk[2] say whether the
\* first and the second db.query of the call get through to the database
addComment(db, incidentId, authorName, commentText, dbOk, t) ==
    IF ~Truthy(commentText) \/ ~Truthy(trim(commentText))
    THEN [error |-> "Comment text cannot be empty", db |-> db, dbWrites |-> 0]
    ELSE LET commentResult ==
                 insertComment(db, commentValues(incidentId, authorName, commentText),
                               dbOk[1], t)
         IN IF commentResult.error # ""
            THEN [error |-> commentResult.error, db |-> commentResult.db,
                  dbWrites |-> 1]
            ELSE LET activityResult ==
                         insertActivity(commentResult.db,
                                        <<incidentId, "commented", authorName,
                                          authorName \o " added a comment">>,
                                        dbOk[2], t)
                 IN IF activityResult.error # ""
                    THEN [error |-> activityResult.error, db |-> activityResult.db,
                          dbWrites |-> 2]
                    ELSE [error |-> "", db |-> activityResult.db, dbWrites |-> 2,
                          comment |-> commentResult.rows[1]]

\* ORDER BY created_at ASC | DESC.  Rows of one table written by different
\* statements have different created_at; rows with equal created_at come in
\* the order of their id.
RECURSIVE orderByCreatedAt(_, _)
orderByCreatedAt(rows, direction) ==
    IF Len(rows) = 0 THEN <<>>
    ELSE LET before(a, b) ==
                 IF a.created_at # b.created_at
                 THEN IF direction = "ASC"
                      THEN a.created_at < b.created_at
                      ELSE a.created_at > b.created_at
                 ELSE a.id < b.id
             first == CHOOSE i \in 1..Len(rows) :
                         \A j \in (1..Len(rows)) \ {i} : before(rows[i], rows[j])
             rest == [k \in 1..(Len(rows) - 1) |->
                         IF k < first THEN rows[k] ELSE rows[k + 1]]
         IN <<rows[first]>> \o orderByCreatedAt(rest, direction)

\* What one call of getComments does
getComments(db, incidentId, dbOk) ==
    IF ~dbOk
    THEN [error |-> "Database connection failed", db |-> db]
    ELSE LET match(row) == row.incident_id = incidentId
         IN [error |-> "", db |-> db,
             rows |-> orderByCreatedAt(SelectSeq(db.comments, match), "ASC")]

\* (mutant) getActivity with the ordering of getComments
getActivityAscending(db, incidentId, dbOk) ==
    IF ~dbOk
    THEN [error |-> "Database connection failed", db |-> db]
    ELSE LET match(row) == row.incident_id = incidentId
         IN [error |-> "", db |-> db,
             rows |-> orderByCreatedAt(SelectSeq(db.activity, match), "ASC")]

\* What one call of getActivity does
getActivity(db, incidentId, dbOk) ==
    IF ~dbOk
    THEN [error |-> "Database connection failed", db |-> db]
    ELSE LET match(row) == row.incident_id = incidentId
         IN [error |-> "", db |-> db,
             rows |-> orderByCreatedAt(SelectSeq(db.activity, match), "DESC")]

----------------------------------------------------------------------------
(* incidents.service.js: deleteIncident *)

\* (mutant) a DELETE whose foreign keys do not cascade
deleteIncidentsNoCascade(db, id, dbOk) ==
    IF ~dbOk
    THEN [error |-> "Database connection failed", db |-> db, rows |-> <<>>]
    ELSE IF id \notin DOMAIN db.incidents
    THEN [error |-> "", db |-> db, rows |-> <<>>]
    ELSE [error |-> "",
          db |-> [db EXCEPT !.incidents =
                      [i \in (DOMAIN db.incidents) \ {id} |-> db.incidents[i]]],
          rows |-> <<[id |-> id]>>]

\* db.query of DELETE FROM incidents WHERE id = $1 RETURNING id, with the
\* ON DELETE CASCADE of incident_comments and incident_activity
deleteIncidents(db, id, dbOk) ==
    IF ~dbOk
    THEN [error |-> "Database connection failed", db |-> db, rows |-> <<>>]
    ELSE IF id \notin DOMAIN db.incidents
    THEN [error |-> "", db |-> db, rows |-> <<>>]
    ELSE LET kept(row) == row.incident_id # id
         IN [error |-> "",
             db |-> [db EXCEPT !.incidents =
                         [i \in (DOMAIN db.incidents) \ {id} |-> db.incidents[i]],
                               !.comments = SelectSeq(db.comments, kept),
                               !.activity = SelectSeq(db.activity, kept)],
             rows |-> <<[id |-> id]>>]

\* What one call of deleteIncident does
deleteIncident(db, id, dbOk) ==
    LET result == deleteIncidents(db, id, dbOk)
    IN IF result.error # ""
       THEN [error |-> result.error, db |-> result.db]
       ELSE IF Len(result.rows) = 0
       THEN [error |-> "Incident with ID " \o ToString(id) \o " not found",
             db |-> result.db]
       ELSE [error |-> "", db |-> result.db, returned |-> TRUE]

----------------------------------------------------------------------------
(* The requests the model sends *)

Titles == {Absent, "DB timeout"}
Severities == {Absent, "", "low", "HIGH", "Medium", "critical"}
Descriptions == {"", "Connection pool exhausted"}
Statuses == {Absent, "", "open", "investigating", "resolved", "closed",
             "RESOLVED", "Closed", "reopened"}
Assignees == {Null, "Alice", "Bob"}
Actors == {"System"}
Authors == {Absent, "Alice"}
CommentTexts == {Absent, "", "   ", "  fixed it ", "restarted"}

\* The clients whose updateStatus requests can be in flight together, and
\* the statuses they ask for
Clients == {"a", "b"}
RequestedStatuses == {"open", "investigating", "resolved"}

\* The creation requests of the lifecycle specification
ReportedSeverities == {"low", "HIGH"}
ReportedResponses == {[kind |-> "rejected"]}

\* Parsed bodies of the model's reply
fullBody ==
    [summary |-> "Connection pool saturated",
     rootCauses |-> Arr(<<[type |-> "object", cause |-> "Pool at max capacity",
                          likelihood |-> "high", reasoning |-> "Timeouts in log",
                          components |-> <<"db", "api">>],
                         Str("Slow queries")>>),
     customerMessage |-> "We are investigating database issues",
     actionItems |-> Arr(<<[type |-> "object", priority |-> "immediate",
                           action |-> "Restart service", owner |-> "SRE",
                           command |-> "kubectl rollout restart"],
                          Str("Check logs")>>),
     suggestedSeverity |-> "critical",
     severityJustification |-> "High user impact",
     similarPatterns |-> <<"Pool exhaustion">>,
     preventiveMeasures |-> <<"Add alerting">>]
minimalBody ==
    [summary |-> "Connection pool saturated",
     rootCauses |-> Str("Pool at max capacity"),
     customerMessage |-> "We are investigating database issues"]
summaryOnlyBody == [summary |-> "Test summary"]
noSummaryBody ==
    [rootCauses |-> Arr(<<Str("Slow queries")>>),
     customerMessage |-> "We are investigating database issues"]
emptySummaryBody ==
    [summary |-> "",
     rootCauses |-> Arr(<<Str("Slow queries")>>),
     customerMessage |-> "We are investigating database issues"]
noMessageBody ==
    [summary |-> "Connection pool saturated",
     rootCauses |-> Arr(<<Str("Slow queries")>>)]
noRootCausesBody ==
    [summary |-> "Connection pool saturated",
     customerMessage |-> "We are investigating database issues"]

Bodies == {fullBody, minimalBody, summaryOnlyBody, noSummaryBody,
           emptySummaryBody, noMessageBody, noRootCausesBody}

\* Bodies that pass the required-fields check
emptyCausesBody ==
    [summary |-> "Connection pool saturated",
     rootCauses |-> Arr(<<>>),
     customerMessage |-> "We are investigating database issues"]
objectCauseBody ==
    [summary |-> "Connection pool saturated",
     rootCauses |-> [type |-> "object", cause |-> "Pool at max capacity",
                     likelihood |-> "high"],
     customerMessage |-> "We are investigating database issues"]
exampleBody ==
    [summary |-> "Connection pool saturated",
     rootCauses |-> Arr(<<[type |-> "object", cause |-> "X",
                          likelihood |-> "high", components |-> <<"A", "B">>]>>),
     customerMessage |-> "We are investigating database issues",
     actionItems |-> Arr(<<>>)]
mixedBody ==
    [summary |-> "Connection pool saturated",
     rootCauses |-> Arr(<<[type |-> "object", cause |-> "Memory leak",
                          likelihood |-> "medium", reasoning |-> "Heap grows",
                          components |-> <<>>],
                         Str("Slow queries"),
                         [type |-> "object", cause |-> "Disk full",
                          likelihood |-> "low", reasoning |-> "No space left"]>>),
     customerMessage |-> "We are investigating database issues",
     actionItems |-> Arr(<<[type |-> "object", action |-> "Restart service"],
                          Str("Check logs"),
                          [type |-> "object", priority |-> "high",
                           action |-> "Scale up", owner |-> "DevOps"]>>),
     suggestedSeverity |-> "urgent"]

\* What openai.chat.completions.create can do
Responses ==
    {[kind |-> "rejected"], [kind |-> "timeout"],
     [kind |-> "resolved", content |-> [parse |-> "error"], total_tokens |-> 100]}
    \cup {[kind |-> "resolved", content |-> [parse |-> "ok", json |-> b],
           total_tokens |-> 1500] : b \in Bodies}

\* The requests of the intake specification: what the controller can hand to
\* createIncident and createIncident to generateIncidentAnalysis
IntakeTitles == {"DB timeout", Unprintable}
IntakeSeverities == {"low", "HIGH", "Medium"}
IntakeResponses ==
    Responses \cup
    {[kind |-> "resolved", content |-> [parse |-> "ok", json |-> b],
      total_tokens |-> 1500] :
        b \in {emptyCausesBody, objectCauseBody, exampleBody, mixedBody}}

----------------------------------------------------------------------------
(* The state machine *)

db == [incidents |-> incidents, activity |-> activity, comments |-> comments,
       activitySeq |-> activitySeq, commentSeq |-> commentSeq]

\* The tables after a call
Written(after) ==
    /\ incidents' = after.incidents
    /\ activity' = after.activity
    /\ comments' = after.comments
    /\ activitySeq' = after.activitySeq
    /\ commentSeq' = after.commentSeq

Init ==
    /\ incidents = <<>>
    /\ activity = <<>>
    /\ comments = <<>>
    /\ nextId = 1
    /\ activitySeq = 1
    /\ commentSeq = 1
    /\ now = 1
    /\ pending = [c \in Clients |-> [pc |-> "idle"]]
    /\ lastOp = [op |-> "none"]

\* A request that changed the database took time; the clock moves on
Tick(before, after) == IF after = before THEN now ELSE now + 1

CreateIncident ==
    /\ lastOp.op = "none"
    /\ UNCHANGED pending
    /\ nextId <= MaxIncidents
    /\ now < MaxTime
    /\ \E title \in Titles, severity \in Severities, description \in Descriptions,
          response \in Responses, dbOk \in BOOLEAN :
         LET incidentData == [title |-> title, severity |-> severity,
                              description |-> description]
             r == createIncident(db, nextId, incidentData, response, dbOk, now)
         IN /\ Written(r.db)
            /\ nextId' = IF r.error = "" THEN nextId + 1 ELSE nextId
            /\ now' = Tick(db, r.db)
            /\ lastOp' = [op |-> "createIncident", incidentData |-> incidentData,
                          response |-> response, dbOk |-> dbOk, call |-> r]

UpdateStatus ==
    /\ lastOp.op = "none"
    /\ UNCHANGED pending
    /\ now < MaxTime
    /\ \E id \in 1..MaxIncidents, newStatus \in Statuses, actorName \in Actors,
          dbOk \in BOOLEAN :
         LET r == updateStatus(db, id, newStatus, actorName, dbOk, now)
         IN /\ Written(r.db)
            /\ now' = Tick(db, r.db)
            /\ lastOp' = [op |-> "updateStatus", id |-> id, newStatus |-> newStatus,
                          dbOk |-> dbOk, call |-> r]
            /\ UNCHANGED nextId

AssignIncident ==
    /\ lastOp.op = "none"
    /\ UNCHANGED pending
    /\ now < MaxTime
    /\ \E id \in 1..MaxIncidents, assigneeName \in Assignees, actorName \in Actors,
          dbOk \in BOOLEAN :
         LET r == assignIncident(db, id, assigneeName, actorName, dbOk, now)
         IN /\ Written(r.db)
            /\ now' = Tick(db, r.db)
            /\ lastOp' = [op |-> "assignIncident", id |-> id,
                          assigneeName |-> assigneeName, dbOk |-> dbOk, call |-> r]
            /\ UNCHANGED nextId

\* The controller sends the response (or the error) of the call and the
\* request is over
Respond ==
    /\ lastOp.op # "none"
    /\ UNCHANGED pending
    /\ lastOp' = [op |-> "none"]
    /\ UNCHANGED <<incidents, activity, comments, nextId, activitySeq, commentSeq, now>>

Next == CreateIncident \/ UpdateStatus \/ AssignIncident \/ Respond

\* createIncident, for the requests of the lifecycle specification
ReportIncident ==
    /\ lastOp.op = "none"
    /\ UNCHANGED pending
    /\ nextId <= MaxIncidents
    /\ now < MaxTime
    /\ \E severity \in ReportedSeverities, response \in ReportedResponses :
         LET incidentData == [title |-> "DB timeout", severity |-> severity,
                              description |-> "Connection pool exhausted"]
             r == createIncident(db, nextId, incidentData, response, TRUE, now)
         IN /\ Written(r.db)
            /\ nextId' = IF r.error = "" THEN nextId + 1 ELSE nextId
            /\ now' = Tick(db, r.db)
            /\ lastOp' = [op |-> "createIncident", incidentData |-> incidentData,
                          response |-> response, dbOk |-> TRUE, call |-> r]

AddComment ==
    /\ lastOp.op = "none"
    /\ UNCHANGED pending
    /\ now < MaxTime
    /\ \E incidentId \in 1..MaxIncidents, authorName \in Authors,
          commentText \in CommentTexts, dbOk \in BOOLEAN \X BOOLEAN :
         LET r == addComment(db, incidentId, authorName, commentText, dbOk, now)
         IN /\ Written(r.db)
            /\ now' = Tick(db, r.db)
            /\ lastOp' = [op |-> "addComment", id |-> incidentId,
                          authorName |-> authorName, commentText |-> commentText,
                          dbOk |-> dbOk, call |-> r]
            /\ UNCHANGED nextId

DeleteIncident ==
    /\ lastOp.op = "none"
    /\ UNCHANGED pending
    /\ now < MaxTime
    /\ \E id \in 1..MaxIncidents, dbOk \in BOOLEAN :
         LET r == deleteIncident(db, id, dbOk)
         IN /\ Written(r.db)
            /\ now' = Tick(db, r.db)
            /\ lastOp' = [op |-> "deleteIncident", id |-> id, dbOk |-> dbOk,
                          call |-> r]
            /\ UNCHANGED nextId

GetComments ==
    /\ lastOp.op = "none"
    /\ UNCHANGED pending
    /\ \E incidentId \in 1..MaxIncidents, dbOk \in BOOLEAN :
         LET r == getComments(db, incidentId, dbOk)
         IN /\ lastOp' = [op |-> "getComments", id |-> incidentId, dbOk |-> dbOk,
                          call |-> r]
            /\ UNCHANGED <<incidents, activity, comments, nextId, activitySeq,
                           commentSeq, now>>

GetActivity ==
    /\ lastOp.op = "none"
    /\ UNCHANGED pending
    /\ \E incidentId \in 1..MaxIncidents, dbOk \in BOOLEAN :
         LET r == getActivity(db, incidentId, dbOk)
         IN /\ lastOp' = [op |-> "getActivity", id |-> incidentId, dbOk |-> dbOk,
                          call |-> r]
            /\ UNCHANGED <<incidents, activity, comments, nextId, activitySeq,
                           commentSeq, now>>

\* createIncident, for the requests of the intake specification
SubmitIncident ==
    /\ lastOp.op = "none"
    /\ UNCHANGED pending
    /\ nextId <= MaxIncidents
    /\ now < MaxTime
    /\ \E title \in IntakeTitles, response \in ReportedResponses, dbOk \in BOOLEAN :
         LET incidentData == [title |-> title, severity |-> "low",
                              description |-> "Connection pool exhausted"]
             r == createIncident(db, nextId, incidentData, response, dbOk, now)
         IN /\ Written(r.db)
            /\ nextId' = IF r.error = "" THEN nextId + 1 ELSE nextId
            /\ now' = Tick(db, r.db)
            /\ lastOp' = [op |-> "createIncident", incidentData |-> incidentData,
                          response |-> response, dbOk |-> dbOk, call |-> r]

\* generateIncidentAnalysis on its own: the analysis step of a creation
\* request, whatever the OpenAI call does
Analyse ==
    /\ lastOp.op = "none"
    /\ UNCHANGED pending
    /\ \E title \in IntakeTitles, severity \in IntakeSeverities,
          response \in IntakeResponses :
         LET incidentData == [title |-> title, severity |-> severity,
                              description |-> "Connection pool exhausted"]
         IN lastOp' = [op |-> "generateIncidentAnalysis",
                       incidentData |-> incidentData, response |-> response,
                       call |-> generateIncidentAnalysis(incidentData, response, now)]
    /\ UNCHANGED <<incidents, activity, comments, nextId, activitySeq,
                   commentSeq, now>>

IntakeNext == SubmitIncident \/ Analyse \/ Respond

Intake == Init /\ [][IntakeNext]_vars

\* Client c sends PATCH /api/incidents/:id/status; the controller calls
\* updateStatus, which is now waiting for its db.query
CallUpdateStatus(c) ==
    /\ pending[c].pc = "idle"
    /\ \E id \in DOMAIN incidents, newStatus \in RequestedStatuses :
         pending' = [pending EXCEPT ![c] = [pc |-> "query", id |-> id,
                                            newStatus |-> newStatus]]
    /\ UNCHANGED <<incidents, activity, comments, nextId, activitySeq,
                   commentSeq, now, lastOp>>

\* The database runs the UPDATE of client c: the statement, its BEFORE and
\* AFTER triggers are one transaction, and the row lock makes the UPDATEs of
\* one row take their turns
ExecuteUpdate(c) ==
    /\ pending[c].pc = "query"
    /\ now < MaxTime
    /\ \E dbOk \in BOOLEAN :
         LET r == updateStatus(db, pending[c].id, pending[c].newStatus, "System",
                               dbOk, now)
         IN /\ Written(r.db)
            /\ now' = Tick(db, r.db)
            /\ pending' = [pending EXCEPT ![c] = [pc |-> "result",
                                                   id |-> pending[c].id,
                                                   newStatus |-> pending[c].newStatus,
                                                   error |-> r.error]]
    /\ UNCHANGED <<nextId, lastOp>>

\* The controller of client c sends the incident or the error
ReturnUpdate(c) ==
    /\ pending[c].pc = "result"
    /\ pending' = [pending EXCEPT ![c] = [pc |-> "idle"]]
    /\ UNCHANGED <<incidents, activity, comments, nextId, activitySeq,
                   commentSeq, now, lastOp>>

ConcurrentNext ==
    \/ ReportIncident
    \/ Respond
    \/ \E c \in Clients : CallUpdateStatus(c)
    \/ \E c \in Clients : ExecuteUpdate(c)
    \/ \E c \in Clients : ReturnUpdate(c)

Concurrent == Init /\ [][ConcurrentNext]_vars

LifecycleNext ==
    \/ ReportIncident
    \/ UpdateStatus
    \/ AssignIncident
    \/ AddComment
    \/ DeleteIncident
    \/ GetComments
    \/ GetActivity
    \/ Respond

Lifecycle == Init /\ [][LifecycleNext]_vars

Spec == Init /\ [][Next]_vars

----------------------------------------------------------------------------
(* Vocabulary of the properties *)

\* The call being answered is a createIncident / updateStatus call
CreateCall == lastOp.op = "createIncident"
StatusCall == lastOp.op = "updateStatus"

\* A creation request that satisfies the validation rules
ValidCreation(d) ==
    /\ d.title \notin {Absent, ""}
    /\ d.description \notin {Absent, ""}
    /\ d.severity \in {"low", "medium", "high", "LOW", "MEDIUM", "HIGH",
                       "Low", "Medium", "High"}

\* The OpenAI call threw or timed out
AIFailed(response) == response.kind \in {"rejected", "timeout"}

\* The OpenAI call returned a body that cannot be parsed or that lacks one of
\* summary, rootCauses, customerMessage
AIMalformed(response) ==
    /\ response.kind = "resolved"
    /\ \/ response.content.parse = "error"
       \/ /\ response.content.parse = "ok"
          /\ \/ Field(response.content.json, "summary") \in {Absent, ""}
             \/ "rootCauses" \notin DOMAIN response.content.json
             \/ Field(response.content.json, "customerMessage") \in {Absent, ""}

\* The fixed parts of the fallback analysis
FallbackSummaries ==
    {"LOW severity incident: DB timeout (AI analysis unavailable)",
     "MEDIUM severity incident: DB timeout (AI analysis unavailable)",
     "HIGH severity incident: DB timeout (AI analysis unavailable)"}
IsFallback(a) ==
    /\ a.summary \in FallbackSummaries
    /\ Len(a.rootCauses) = 3
    /\ a.rootCauses[1] = Str("[HIGH] AI analysis service temporarily unavailable - manual review required")
    /\ Len(a.actionItems) = 6
    /\ "fallbackMode" \in DOMAIN a.metadata
    /\ a.metadata.fallbackMode = TRUE
    /\ a.metadata.tokensUsed = 0

\* The activity rows of one incident of one type
ActivityOf(id, type) ==
    {i \in 1..Len(activity) :
        activity[i].incident_id = id /\ activity[i].activity_type = type}

----------------------------------------------------------------------------
(* Properties *)

\* C1: for every valid creation input and every outcome of the OpenAI call
\* (success, exception, timeout, unparseable or incomplete body),
\* createIncident returns a persisted incident that carries an analysis,
\* provided the storage write succeeds.
C1_CreationNeverFailsOnAI ==
    (CreateCall /\ ValidCreation(lastOp.incidentData) /\ lastOp.dbOk) =>
        /\ lastOp.call.error = ""
        /\ lastOp.call.incident.id \in DOMAIN incidents
        /\ incidents[lastOp.call.incident.id] = lastOp.call.incident
        /\ lastOp.call.incident.ai_summary \notin {Absent, ""}
        /\ lastOp.call.incident.ai_customer_message \notin {Absent, ""}
        /\ lastOp.call.incident.ai_root_causes = lastOp.call.aiAnalysis.rootCauses
        /\ lastOp.call.incident.ai_metadata = lastOp.call.aiAnalysis.metadata

C1_Witness ==
    /\ CreateCall /\ ValidCreation(lastOp.incidentData) /\ lastOp.dbOk
    /\ lastOp.response.kind = "timeout"
    /\ lastOp.call.error = ""
    /\ lastOp.call.incident.id \in DOMAIN incidents

\* C2: createIncident with a missing or empty title, severity or description,
\* or with a severity that is not low, medium or high in any letter case,
\* throws a validation error without calling the OpenAI API and without
\* sending a statement to the database: incidents and activity are unchanged.
C2_ValidationBeforeAI ==
    [][(lastOp.op = "none" /\ lastOp'.op = "createIncident"
          /\ ~ValidCreation(lastOp'.incidentData)) =>
        /\ lastOp'.call.error \in
              {"Missing required fields: title, severity, and description are required",
               "Invalid severity. Must be one of: low, medium, high"}
        /\ lastOp'.call.aiCalls = 0
        /\ lastOp'.call.dbWrites = 0
        /\ incidents' = incidents
        /\ activity' = activity
        /\ nextId' = nextId]_vars

C2_Witness ==
    /\ CreateCall
    /\ lastOp.incidentData.severity = "critical"
    /\ lastOp.incidentData.title = "DB timeout"
    /\ lastOp.incidentData.description = "Connection pool exhausted"
    /\ lastOp.call.error = "Invalid severity. Must be one of: low, medium, high"
    /\ lastOp.call.aiCalls = 0

\* C3: whenever the OpenAI call throws or times out, the analysis that
\* generateIncidentAnalysis returns, and that createIncident stores, has
\* metadata.fallbackMode = true and metadata.tokensUsed = 0.
C3_FallbackMarking ==
    (CreateCall /\ lastOp.call.aiCalls = 1 /\ AIFailed(lastOp.response)) =>
        /\ "aiAnalysis" \in DOMAIN lastOp.call
        /\ "fallbackMode" \in DOMAIN lastOp.call.aiAnalysis.metadata
        /\ lastOp.call.aiAnalysis.metadata.fallbackMode = TRUE
        /\ lastOp.call.aiAnalysis.metadata.tokensUsed = 0
        /\ lastOp.call.error = "" =>
              /\ "fallbackMode" \in DOMAIN lastOp.call.incident.ai_metadata
              /\ incidents[lastOp.call.incident.id].ai_metadata.fallbackMode = TRUE
              /\ incidents[lastOp.call.incident.id].ai_metadata.tokensUsed = 0

C3_Witness ==
    /\ CreateCall /\ lastOp.call.aiCalls = 1
    /\ lastOp.response.kind = "rejected"
    /\ lastOp.call.error = ""
    /\ incidents[lastOp.call.incident.id].ai_metadata.tokensUsed = 0

\* C4: when the OpenAI call returns a body that cannot be parsed or that lacks
\* summary, rootCauses or customerMessage, the analysis is the fallback
\* analysis of a failed call; nothing of the incomplete body is in it.
C4_MalformedIsFallback ==
    (CreateCall /\ lastOp.call.aiCalls = 1 /\ AIMalformed(lastOp.response)) =>
        /\ "aiAnalysis" \in DOMAIN lastOp.call
        /\ IsFallback(lastOp.call.aiAnalysis)
        /\ lastOp.call.aiAnalysis.suggestedSeverity = lastOp.incidentData.severity
        /\ lastOp.call.error = "" =>
              /\ lastOp.call.incident.ai_summary \in FallbackSummaries
              /\ lastOp.call.incident.ai_metadata.tokensUsed = 0

C4_Witness ==
    /\ CreateCall /\ lastOp.call.aiCalls = 1
    /\ lastOp.response.kind = "resolved"
    /\ lastOp.response.content.parse = "ok"
    /\ lastOp.response.content.json = noMessageBody
    /\ lastOp.call.error = ""
    /\ IsFallback(lastOp.call.aiAnalysis)

\* C5: metadata.fallbackMode is true exactly when the analysis comes from the
\* fallback branch, and an analysis built from a successful model call
\* carries metadata.fallbackMode = false.
C5_FallbackModeIff ==
    (CreateCall /\ "aiAnalysis" \in DOMAIN lastOp.call) =>
        IF AIFailed(lastOp.response) \/ AIMalformed(lastOp.response)
        THEN /\ "fallbackMode" \in DOMAIN lastOp.call.aiAnalysis.metadata
             /\ lastOp.call.aiAnalysis.metadata.fallbackMode = TRUE
        ELSE /\ "fallbackMode" \in DOMAIN lastOp.call.aiAnalysis.metadata
             /\ lastOp.call.aiAnalysis.metadata.fallbackMode = FALSE

\* C6: generateIncidentAnalysis never raises to its caller: whatever the
\* OpenAI call does, createIncident gets an analysis from it and goes on to
\* the database write.
C6_AnalysisIsTotal ==
    (CreateCall /\ lastOp.call.aiCalls = 1) =>
        /\ "aiAnalysis" \in DOMAIN lastOp.call
        /\ lastOp.call.dbWrites = 1
        /\ lastOp.call.error \in {"", "Database connection failed"}
        /\ lastOp.call.aiAnalysis.summary \notin {Absent, ""}
        /\ lastOp.call.aiAnalysis.customerMessage \notin {Absent, ""}

\* C7: creating an incident with severity "HIGH" while the OpenAI call throws
\* yields status "open", severity "high", analysis.suggestedSeverity "high",
\* metadata.fallbackMode = true and exactly 3 rootCauses.
C7_UpperCaseScenario ==
    (CreateCall /\ lastOp.incidentData.severity = "HIGH"
       /\ lastOp.response.kind = "rejected" /\ lastOp.call.error = "") =>
        /\ lastOp.call.incident.status = "open"
        /\ lastOp.call.incident.severity = "high"
        /\ lastOp.call.aiAnalysis.suggestedSeverity = "high"
        /\ lastOp.call.aiAnalysis.metadata.fallbackMode = TRUE
        /\ Len(lastOp.call.aiAnalysis.rootCauses) = 3

\* C8: a createIncident call that passes validation calls the OpenAI API
\* exactly once and sends exactly one INSERT; when the database rejects the
\* INSERT the call throws that error, nothing is retried and no incident is
\* stored.
C8_OneCallOneWrite ==
    [][(lastOp.op = "none" /\ lastOp'.op = "createIncident"
          /\ ValidCreation(lastOp'.incidentData)) =>
        /\ lastOp'.call.aiCalls = 1
        /\ lastOp'.call.dbWrites = 1
        /\ ~lastOp'.dbOk =>
              /\ lastOp'.call.error = "Database connection failed"
              /\ incidents' = incidents
              /\ activity' = activity
              /\ nextId' = nextId]_vars

C8_Witness ==
    /\ CreateCall /\ ValidCreation(lastOp.incidentData)
    /\ ~lastOp.dbOk
    /\ lastOp.call.error = "Database connection failed"
    /\ lastOp.call.aiCalls = 1
    /\ lastOp.call.dbWrites = 1

\* C9: every incident that createIncident stored has exactly one activity
\* entry of type created.
C9_CreatedActivity ==
    \A id \in DOMAIN incidents : Cardinality(ActivityOf(id, "created")) = 1

\* C10 as stated: updateStatus with a newStatus that is not one of open,
\* investigating, resolved, closed throws and leaves incidents and activity
\* unchanged, and every stored status is one of the four.
C10_RejectsNonEnumStatus ==
    [][(lastOp.op = "none" /\ lastOp'.op = "updateStatus"
          /\ lastOp'.newStatus \notin {"open", "investigating", "resolved", "closed"}) =>
        /\ lastOp'.call.error # ""
        /\ incidents' = incidents
        /\ activity' = activity]_vars

\* C10 amended: updateStatus with a newStatus that is not open, investigating,
\* resolved or closed in any letter case throws before any statement is sent,
\* leaving incidents and activity unchanged, and every stored status is one
\* of the four lowercase values.
C10_RejectsInvalidStatus ==
    [][/\ (lastOp.op = "none" /\ lastOp'.op = "updateStatus"
             /\ lastOp'.newStatus \notin
                  {"open", "investigating", "resolved", "closed",
                   "OPEN", "INVESTIGATING", "RESOLVED", "CLOSED",
                   "Open", "Investigating", "Resolved", "Closed"}) =>
            /\ lastOp'.call.error \in
                  {"Invalid status. Must be one of: open, investigating, resolved, closed",
                   "TypeError"}
            /\ lastOp'.call.dbWrites = 0
            /\ incidents' = incidents
            /\ activity' = activity
       /\ \A id \in DOMAIN incidents' :
            incidents'[id].status \in {"open", "investigating", "resolved", "closed"}]_vars

C10_Witness ==
    /\ StatusCall
    /\ lastOp.newStatus = "reopened"
    /\ lastOp.id \in DOMAIN incidents
    /\ lastOp.call.error = "Invalid status. Must be one of: open, investigating, resolved, closed"
    /\ incidents[lastOp.id].status = "investigating"

----------------------------------------------------------------------------
(* Status lifecycle, assignment, comments and reads *)

\* A step in which the service answers a call of the named operation
Calls(op) == lastOp.op = "none" /\ lastOp'.op = op

\* The rows of the given activity type, in the order of the table
OfType(rows, type) ==
    LET match(row) == row.activity_type = type
    IN SelectSeq(rows, match)

\* C11: resolved_at and closed_at are write-once: once set for an incident, no
\* later step changes or clears the value.
C11_TimestampsWriteOnce ==
    [][\A id \in (DOMAIN incidents) \cap (DOMAIN incidents') :
          /\ incidents[id].resolved_at # NullTime =>
                incidents'[id].resolved_at = incidents[id].resolved_at
          /\ incidents[id].closed_at # NullTime =>
                incidents'[id].closed_at = incidents[id].closed_at]_vars

C13_TimestampWithStatus ==
    \A id \in DOMAIN incidents :
        /\ incidents[id].status = "resolved" => incidents[id].resolved_at # NullTime
        /\ incidents[id].status = "closed" => incidents[id].closed_at # NullTime

\* C14: no transition is guarded and no status is terminal: for an existing
\* incident in any of the four statuses, updateStatus to any of the four
\* statuses is accepted by the service and stored.
C14_EveryTransitionAccepted ==
    [][(/\ Calls("updateStatus")
        /\ lastOp'.id \in DOMAIN incidents
        /\ lastOp'.newStatus \in {"open", "investigating", "resolved", "closed"}
        /\ lastOp'.dbOk) =>
           /\ incidents[lastOp'.id].status \in
                 {"open", "investigating", "resolved", "closed"}
           /\ lastOp'.call.error = ""
           /\ incidents'[lastOp'.id].status = lastOp'.newStatus
           /\ lastOp'.call.incident.status = lastOp'.newStatus]_vars

\* closed -> open has been accepted
C14_Witness ==
    /\ StatusCall
    /\ lastOp.newStatus = "open"
    /\ lastOp.call.error = ""
    /\ incidents[lastOp.id].status = "open"
    /\ incidents[lastOp.id].closed_at # NullTime
    /\ \E i \in 1..Len(activity) :
          /\ activity[i].incident_id = lastOp.id
          /\ activity[i].description = "Status changed from closed to open"

\* C15: a successful assignIncident stores the assignee; when the assignee
\* changes it appends exactly one assigned entry, "Incident unassigned" for a
\* null assignee, "Incident assigned to X" when there was none before,
\* "Incident reassigned from X to Y" otherwise; assigning the current assignee
\* appends nothing.
C15_AssignmentLogged ==
    [][(Calls("assignIncident") /\ lastOp'.call.error = "") =>
          LET id == lastOp'.id
              X == incidents[id].assigned_to
              Y == lastOp'.assigneeName
          IN /\ incidents'[id].assigned_to = Y
             /\ IF X = Y
                THEN activity' = activity
                ELSE /\ Len(activity') = Len(activity) + 1
                     /\ SubSeq(activity', 1, Len(activity)) = activity
                     /\ LET e == activity'[Len(activity')]
                        IN /\ e.incident_id = id
                           /\ e.activity_type = "assigned"
                           /\ e.description =
                                 IF Y = Null THEN "Incident unassigned"
                                 ELSE IF X = Null THEN "Incident assigned to " \o Y
                                 ELSE "Incident reassigned from " \o X \o " to " \o Y]_vars

\* Alice has been unassigned: one entry "Incident unassigned"
C15_Witness ==
    /\ lastOp.op = "assignIncident"
    /\ lastOp.assigneeName = Null
    /\ lastOp.call.error = ""
    /\ Len(activity) = 2
    /\ activity[1].description = "Incident assigned to Alice"
    /\ activity[2].description = "Incident unassigned"
    /\ incidents[lastOp.id].assigned_to = Null

\* C16: addComment with a text that is missing, empty or blank throws
\* "Comment text cannot be empty" before any statement is sent, so no comment
\* and no activity entry is added; a comment that is stored holds the trimmed
\* text.
C16_BlankCommentRejected ==
    [][Calls("addComment") =>
          /\ lastOp'.commentText \in {Absent, "", "   "} =>
                /\ lastOp'.call.error = "Comment text cannot be empty"
                /\ lastOp'.call.dbWrites = 0
                /\ comments' = comments
                /\ activity' = activity
          /\ lastOp'.call.error = "" =>
                /\ Len(comments') = Len(comments) + 1
                /\ comments'[Len(comments')] = lastOp'.call.comment
                /\ lastOp'.call.comment.comment_text =
                      IF lastOp'.commentText = "  fixed it "
                      THEN "fixed it"
                      ELSE lastOp'.commentText
          /\ \A i \in 1..Len(comments') :
                comments'[i].comment_text \in {"fixed it", "restarted"}]_vars

\* "  fixed it " has been stored as "fixed it" and a blank text is rejected
C16_Witness ==
    /\ lastOp.op = "addComment"
    /\ lastOp.commentText = "   "
    /\ lastOp.call.error = "Comment text cannot be empty"
    /\ Len(comments) = 1
    /\ comments[1].comment_text = "fixed it"
    /\ Len(activity) = 1

\* C17: the comment and its commented entry are stored together or not at
\* all: every incident has as many comments as commented activity entries.
C17_CommentAndEntryTogether ==
    \A id \in 1..MaxIncidents :
        Cardinality({i \in 1..Len(comments) : comments[i].incident_id = id}) =
        Cardinality({i \in 1..Len(activity) :
                        /\ activity[i].incident_id = id
                        /\ activity[i].activity_type = "commented"})

\* C18: getComments(id) returns exactly the comments of incident id, oldest
\* first, and getActivity(id) returns exactly the activity entries of incident
\* id, newest first.
C18_ReadOrder ==
    /\ (lastOp.op = "getComments" /\ lastOp.call.error = "") =>
          LET rows == lastOp.call.rows
          IN /\ {rows[i] : i \in 1..Len(rows)} =
                   {comments[i] : i \in {j \in 1..Len(comments) :
                                            comments[j].incident_id = lastOp.id}}
             /\ \A i, j \in 1..Len(rows) :
                   i < j => rows[i].created_at < rows[j].created_at
    /\ (lastOp.op = "getActivity" /\ lastOp.call.error = "") =>
          LET rows == lastOp.call.rows
          IN /\ {rows[i] : i \in 1..Len(rows)} =
                   {activity[i] : i \in {j \in 1..Len(activity) :
                                            activity[j].incident_id = lastOp.id}}
             /\ \A i, j \in 1..Len(rows) :
                   i < j => rows[i].created_at > rows[j].created_at

\* getActivity has returned two entries, the newer one first, for an incident
\* that also has a comment
C18_Witness ==
    /\ lastOp.op = "getActivity"
    /\ lastOp.call.error = ""
    /\ Len(lastOp.call.rows) = 2
    /\ lastOp.call.rows[1] = activity[2]
    /\ lastOp.call.rows[2] = activity[1]
    /\ \E i \in 1..Len(comments) : comments[i].incident_id = lastOp.id

\* C19: when the database is reachable, updateStatus with an accepted status
\* and assignIncident for an id that has no incident throw "Incident with ID
\* <id> not found" and change no incident, activity entry or comment.
C19_MissingIncidentNotFound ==
    [][(/\ lastOp.op = "none"
        /\ \/ /\ lastOp'.op = "updateStatus"
              /\ lastOp'.newStatus \in {"open", "investigating", "resolved",
                                        "closed", "RESOLVED", "Closed"}
           \/ lastOp'.op = "assignIncident"
        /\ lastOp'.id \notin DOMAIN incidents
        /\ lastOp'.dbOk) =>
           /\ lastOp'.call.error \in {"Incident with ID 1 not found",
                                      "Incident with ID 2 not found",
                                      "Incident with ID 3 not found"}
           /\ lastOp'.call.error =
                 "Incident with ID " \o ToString(lastOp'.id) \o " not found"
           /\ incidents' = incidents
           /\ activity' = activity
           /\ comments' = comments]_vars

\* assignIncident for incident 2 while only incident 1 exists
C19_Witness ==
    /\ lastOp.op = "assignIncident"
    /\ lastOp.id = 2
    /\ lastOp.assigneeName = "Alice"
    /\ lastOp.call.error = "Incident with ID 2 not found"
    /\ DOMAIN incidents = {1}
    /\ incidents[1].assigned_to = Null
    /\ activity = <<>>

\* C20: when the database is reachable, deleteIncident(id) for an existing
\* incident removes it and every comment and activity entry of it, leaves the
\* other records alone and returns true; for an absent id it throws "Incident
\* with ID <id> not found" and changes nothing.  After every step each
\* comment and activity entry refers to an existing incident.
C20_DeleteCascades ==
    [][/\ (Calls("deleteIncident") /\ lastOp'.dbOk) =>
            LET id == lastOp'.id
                others(rows) == {rows[i] : i \in {j \in 1..Len(rows) :
                                                     rows[j].incident_id # id}}
                all(rows) == {rows[i] : i \in 1..Len(rows)}
            IN IF id \in DOMAIN incidents
               THEN /\ lastOp'.call.error = ""
                    /\ lastOp'.call.returned = TRUE
                    /\ DOMAIN incidents' = (DOMAIN incidents) \ {id}
                    /\ \A i \in DOMAIN incidents' : incidents'[i] = incidents[i]
                    /\ all(comments') = others(comments)
                    /\ all(activity') = others(activity)
               ELSE /\ lastOp'.call.error =
                          "Incident with ID " \o ToString(id) \o " not found"
                    /\ incidents' = incidents
                    /\ comments' = comments
                    /\ activity' = activity
       /\ \A i \in 1..Len(comments') :
             comments'[i].incident_id \in DOMAIN incidents'
       /\ \A i \in 1..Len(activity') :
             activity'[i].incident_id \in DOMAIN incidents']_vars

\* incident 1 has been deleted with its comment and its activity entry
C20_Witness ==
    /\ lastOp.op = "deleteIncident"
    /\ lastOp.id = 1
    /\ lastOp.call.error = ""
    /\ lastOp.call.returned
    /\ nextId = 2
    /\ commentSeq = 2
    /\ activitySeq = 2
    /\ DOMAIN incidents = {}
    /\ comments = <<>>
    /\ activity = <<>>

----------------------------------------------------------------------------
(* The analysis step on its own *)

\* generateIncidentAnalysis has returned an analysis
Analysed == lastOp.op = "generateIncidentAnalysis" /\ ~lastOp.call.raised

\* ... from the success branch, for the parsed body b
AnalysedBody(b) ==
    /\ Analysed
    /\ lastOp.response.kind = "resolved"
    /\ lastOp.response.content.parse = "ok"
    /\ lastOp.response.content.json = b

\* C21: every analysis generateIncidentAnalysis returns has rootCauses of
\* length >= 1 whose elements are all strings.
C21_RootCausesAreStrings ==
    Analysed =>
        /\ Len(lastOp.call.value.rootCauses) >= 1
        /\ \A i \in 1..Len(lastOp.call.value.rootCauses) :
              lastOp.call.value.rootCauses[i].type = "string"

\* C22: every analysis generateIncidentAnalysis returns has suggestedSeverity
\* in {low, medium, high, critical}.
\* When the body has no suggestedSeverity, and on the fallback branch, it is
\* the severity generateIncidentAnalysis was called with.
C22_SuggestedSeverityInEnum ==
    Analysed =>
        /\ lastOp.call.value.suggestedSeverity \in {"low", "medium", "high", "critical"}
        /\ (\/ AIFailed(lastOp.response)
            \/ AIMalformed(lastOp.response)
            \/ "suggestedSeverity" \notin DOMAIN lastOp.response.content.json) =>
              lastOp.call.value.suggestedSeverity = lastOp.incidentData.severity

\* C23: on the success branch a list of causes keeps its length and order; a
\* structured cause with a likelihood becomes "[LIKELIHOOD] cause (Components:
\* a, b)\nReasoning: reasoning", the likelihood in upper case, the components
\* clause left out when the list is empty or absent, "Analysis based on error
\* patterns" for a missing reasoning; a bare string is kept as it is.
C23_RootCauseFormat ==
    /\ \A b \in {fullBody, exampleBody, mixedBody, emptyCausesBody} :
          AnalysedBody(b) =>
             Len(lastOp.call.value.rootCauses) = Len(b.rootCauses.v)
    /\ AnalysedBody(exampleBody) =>
          lastOp.call.value.rootCauses =
             <<Str("[HIGH] X (Components: A, B)\nReasoning: Analysis based on error patterns")>>
    /\ AnalysedBody(fullBody) =>
          lastOp.call.value.rootCauses =
             <<Str("[HIGH] Pool at max capacity (Components: db, api)\nReasoning: Timeouts in log"),
               Str("Slow queries")>>
    /\ AnalysedBody(mixedBody) =>
          lastOp.call.value.rootCauses =
             <<Str("[MEDIUM] Memory leak\nReasoning: Heap grows"),
               Str("Slow queries"),
               Str("[LOW] Disk full\nReasoning: No space left")>>

C23_Witness ==
    /\ AnalysedBody(exampleBody)
    /\ lastOp.call.value.rootCauses[1].v =
          "[HIGH] X (Components: A, B)\nReasoning: Analysis based on error patterns"

\* C24: on the success branch the item at 1-based position N of actionItems
\* becomes "N. [PRIORITY] @owner action\n   Command: command" when it is
\* structured (priority in upper case, "[MEDIUM]" without a priority, no
\* "@owner" without an owner, no Command line without a command) and
\* "N. string" when it is a string; a missing actionItems gives an empty
\* list; length and order are kept.
C24_ActionItemFormat ==
    /\ \A b \in {fullBody, exampleBody, mixedBody} :
          AnalysedBody(b) =>
             Len(lastOp.call.value.actionItems) = Len(b.actionItems.v)
    /\ \A b \in {minimalBody, emptyCausesBody, objectCauseBody} :
          AnalysedBody(b) => lastOp.call.value.actionItems = <<>>
    /\ AnalysedBody(fullBody) =>
          lastOp.call.value.actionItems =
             <<Str("1. [IMMEDIATE] @SRE Restart service\n   Command: kubectl rollout restart"),
               Str("2. Check logs")>>
    /\ AnalysedBody(mixedBody) =>
          lastOp.call.value.actionItems =
             <<Str("1. [MEDIUM] Restart service"),
               Str("2. Check logs"),
               Str("3. [HIGH] @DevOps Scale up")>>

C24_Witness ==
    /\ AnalysedBody(mixedBody)
    /\ Len(lastOp.call.value.actionItems) = 3
    /\ lastOp.call.value.actionItems[3].v = "3. [HIGH] @DevOps Scale up"

C29_AnalysisErrorAborts ==
    [][(/\ Calls("createIncident")
        /\ lastOp'.call.aiCalls = 1
        /\ generateIncidentAnalysis(lastOp'.incidentData, lastOp'.response, now).raised) =>
           /\ lastOp'.call.error =
                 generateIncidentAnalysis(lastOp'.incidentData, lastOp'.response, now).error
           /\ lastOp'.call.error # ""
           /\ lastOp'.call.dbWrites = 0
           /\ "incident" \notin DOMAIN lastOp'.call
           /\ incidents' = incidents
           /\ nextId' = nextId]_vars

C29_Witness ==
    /\ CreateCall
    /\ lastOp.incidentData.title = Unprintable
    /\ lastOp.dbOk
    /\ lastOp.call.aiCalls = 1
    /\ lastOp.call.dbWrites = 0
    /\ lastOp.call.error = "Cannot convert object to primitive value"
    /\ incidents = <<>>

----------------------------------------------------------------------------
(* Frame of the lifecycle operations *)

\* q is an initial part of r
IsPrefix(q, r) == Len(q) <= Len(r) /\ SubSeq(r, 1, Len(q)) = q

\* The rows of incident id, in the order of the table
OfIncident(rows, id) ==
    LET match(row) == row.incident_id = id
    IN SelectSeq(rows, match)

\* C26: an updateStatus call whose newStatus is the current status of the
\* incident leaves the incident row as it was, resolved_at, closed_at and
\* updated_at included.
C26_SameStatusNotStored ==
    [][(/\ Calls("updateStatus")
        /\ lastOp'.id \in DOMAIN incidents
        /\ lastOp'.newStatus = incidents[lastOp'.id].status) =>
           incidents'[lastOp'.id] = incidents[lastOp'.id]]_vars

\* C27: updateStatus, assignIncident and addComment never change the id,
\* title, description, severity, ai_* columns or created_at of any incident;
\* updateStatus leaves assigned_to as it was and assignIncident leaves status,
\* resolved_at and closed_at as they were.
C27_NarrowFrame ==
    [][(lastOp.op = "none"
          /\ lastOp'.op \in {"updateStatus", "assignIncident", "addComment"}) =>
          /\ DOMAIN incidents' = DOMAIN incidents
          /\ \A id \in DOMAIN incidents :
                /\ incidents'[id].id = incidents[id].id
                /\ incidents'[id].title = incidents[id].title
                /\ incidents'[id].description = incidents[id].description
                /\ incidents'[id].severity = incidents[id].severity
                /\ incidents'[id].ai_summary = incidents[id].ai_summary
                /\ incidents'[id].ai_root_causes = incidents[id].ai_root_causes
                /\ incidents'[id].ai_customer_message = incidents[id].ai_customer_message
                /\ incidents'[id].ai_action_items = incidents[id].ai_action_items
                /\ incidents'[id].ai_metadata = incidents[id].ai_metadata
                /\ incidents'[id].created_at = incidents[id].created_at
                /\ lastOp'.op = "updateStatus" =>
                      incidents'[id].assigned_to = incidents[id].assigned_to
                /\ lastOp'.op = "assignIncident" =>
                      /\ incidents'[id].status = incidents[id].status
                      /\ incidents'[id].resolved_at = incidents[id].resolved_at
                      /\ incidents'[id].closed_at = incidents[id].closed_at]_vars

\* a resolved incident has been assigned to Bob: still resolved, same
\* resolved_at
C27_Witness ==
    /\ lastOp.op = "assignIncident"
    /\ lastOp.assigneeName = "Bob"
    /\ lastOp.call.error = ""
    /\ incidents[lastOp.id].assigned_to = "Bob"
    /\ incidents[lastOp.id].status = "resolved"
    /\ incidents[lastOp.id].resolved_at = 2
    /\ incidents[lastOp.id].severity = "high"
    /\ incidents[lastOp.id].updated_at = 3

\* C28: a step other than deleteIncident only appends to incident_activity
\* and incident_comments, and across every step the entries and comments of
\* an incident that stays are an initial part of what it has afterwards.
C28_AppendOnly ==
    [][/\ lastOp'.op # "deleteIncident" =>
             /\ IsPrefix(activity, activity')
             /\ IsPrefix(comments, comments')
       /\ \A id \in (DOMAIN incidents) \cap (DOMAIN incidents') :
             /\ IsPrefix(OfIncident(activity, id), OfIncident(activity', id))
             /\ IsPrefix(OfIncident(comments, id), OfIncident(comments', id))]_vars

\* a comment has been added after a status change: both entries are there
C28_Witness ==
    /\ lastOp.op = "addComment"
    /\ lastOp.call.error = ""
    /\ Len(activity) = 2
    /\ activity[1].activity_type = "status_changed"
    /\ activity[2].activity_type = "commented"
    /\ activity[1].incident_id = activity[2].incident_id
    /\ Len(comments) = 1

----------------------------------------------------------------------------
(* Concurrent status changes *)

\* The status_changed entries of incident id, in the order they were written
StatusChanges(id) == OfIncident(OfType(activity, "status_changed"), id)

\* C30: however concurrent updateStatus calls on an incident interleave, its
\* status_changed entries, in the order they were written, form a chain: the
\* first starts from open, each one starts from the status the one before it
\* ended in, and the last one ends in the status of the incident.
C30_StatusChain ==
    \A id \in DOMAIN incidents :
        LET e == StatusChanges(id)
        IN IF Len(e) = 0
           THEN incidents[id].status = "open"
           ELSE /\ e[1].metadata.old_status = "open"
                /\ \A i \in 1..(Len(e) - 1) :
                      e[i + 1].metadata.old_status = e[i].metadata.new_status
                /\ e[Len(e)].metadata.new_status = incidents[id].status

\* both clients had a request for incident 1 in flight, both UPDATEs have
\* run, and the second started from the status the first one wrote
C30_Witness ==
    /\ pending["a"].pc = "result" /\ pending["b"].pc = "result"
    /\ pending["a"].id = 1 /\ pending["b"].id = 1
    /\ pending["a"].error = "" /\ pending["b"].error = ""
    /\ pending["a"].newStatus = "resolved"
    /\ pending["b"].newStatus = "investigating"
    /\ Len(StatusChanges(1)) = 2
    /\ StatusChanges(1)[1].metadata.new_status = "resolved"
    /\ StatusChanges(1)[2].metadata.old_status = "resolved"
    /\ incidents[1].status = "investigating"

====
